---- MODULE Spec2Model ----
(***************************************************************************)
(* Model of create_base_dati.py: the Finnhub HTTP client's response        *)
(* dispatch (_handle_response, FinnhubAPIException), the four-phase        *)
(* store_data routine and the FinnhubDB persistence layer.                 *)
(*                                                                         *)
(* The vendor service is the environment: every request either raises or   *)
(* returns a value drawn from a small set.  store_data is sequential, so   *)
(* it is modelled as one process whose position is pc; every action is one *)
(* request together with all the bookkeeping the code does around it.      *)
(***************************************************************************)
EXTENDS Integers, Sequences, FiniteSets, TLC

(* ---------------------------------------------------------------- bounds *)
MaxConst == 2      \* longest index-constituent list the vendor returns
MaxBars  == 2      \* longest candle series the vendor returns
MaxExch  == 2      \* longest FX exchange list the vendor returns
MaxPairs == 2      \* longest list of requested currency pairs (fxcurr)
MaxRuns  == 2      \* store_data calls explored
MaxOpens == 2      \* FinnhubDB constructions explored

(* ------------------------------------------------------ program constants *)
SleepSeconds == 80          \* time.sleep(80)
FromDay == 18271            \* from_date "10/01/2020" as a day number

Tickers   == {"AAA", "BBB"}
Pairs     == {"EUR/USD", "GBP/USD"}
Exchanges == {"OANDA", "FOREX", "FOREXPRO"}

TableNames == {"anagraphic_table", "stock_historical_data",
               "fxanagraphic_data", "fxhistorical_data"}

VARIABLES
    tables,      \* table name -> sequence of rows, as the connection sees it
    exists,      \* the tables that exist in the database file
    committed,   \* table name -> rows committed to the database file
    opened,      \* a FinnhubDB object has been constructed
    pc,          \* position of store_data
    fxcurr,      \* store_data argument: requested pair labels
    indx_const,  \* store_data local: the constituents list
    i,           \* store_data local: index into indx_const (phases 1, 2)
    stockprofile,\* store_data local: phase 1 batch
    prices,      \* store_data local: phase 2 batch
    exchanges,   \* store_data local: the FX exchange list
    e,           \* store_data local: index into exchanges (phase 3)
    fxanagraphic_data, \* store_data local: phase 3 batch
    f,           \* store_data local: index into fxcurr (phase 4)
    j,           \* store_data local: index into fxanagraphic_data (phase 4)
    fxprices,    \* store_data local: phase 4 batch
    itemLog,     \* history: requests and sleeps spent on the current loop item
    seen,        \* history: last response processed per constituent, by phase
    fxFetched,   \* history: the fx_candles requests issued by this run
    inserted,    \* history: the bulk inserts of this run, in order
    reported,    \* history: the elapsed-time line of this run was printed
    sinceOpen,   \* history: rows inserted per table since the last construction
    runs, opens, \* history: number of store_data calls / constructions
    lastOp,      \* history: the latest call made by the main program
    lim,         \* how far this specification explores the environment
    response,    \* _handle_response input
    outcome      \* _handle_response result

dbvars   == <<tables, exists, committed, opened>>
locals   == <<indx_const, i, stockprofile, prices, exchanges, e,
              fxanagraphic_data, f, j, fxprices>>
histvars == <<itemLog, seen, fxFetched, inserted, reported, sinceOpen, runs, opens,
              lastOp>>
respvars == <<response, outcome>>
vars     == <<dbvars, pc, fxcurr, locals, histvars, respvars, lim>>

(* --------------------------------------------------------------- helpers *)
SeqsUpTo(S, n) == UNION {[1..k -> S] : k \in 0..n}

DistinctSeqs(S, n) ==
    {q \in SeqsUpTo(S, n) : \A a, b \in 1..Len(q) : q[a] = q[b] => a = b}

RECURSIVE Flatten(_)
Flatten(ss) == IF ss = <<>> THEN <<>> ELSE Head(ss) \o Flatten(Tail(ss))

\* Python's `sub in s` on strings
Contains(s, sub) ==
    \E k \in 1..(Len(s) - Len(sub) + 1) : SubSeq(s, k, k + Len(sub) - 1) = sub

\* a request either raises or returns a value
Raise       == [raised |-> TRUE,  val |-> <<>>]
Return(v)   == [raised |-> FALSE, val |-> v]

(* ------------------------------------------------- the vendor's answers *)
ProfileKeys == {"country", "currency", "exchange", "finnhubIndustry", "ipo",
                "logo", "marketCapitalization", "name", "phone",
                "shareOutstanding", "ticker", "weburl"}

\* /stock/profile2 payloads: a full profile, the empty structure, and a
\* non-empty payload that lacks profile fields
Profile(t) ==
    [country |-> "US", currency |-> "USD", exchange |-> "NASDAQ",
     finnhubIndustry |-> "Technology", ipo |-> "1980-12-12", logo |-> "",
     marketCapitalization |-> 1, name |-> t, phone |-> "",
     shareOutstanding |-> 1, ticker |-> t, weburl |-> ""]
EmptyProfile == <<>>
PartialProfile(t) == [name |-> t, ticker |-> t]

ProfileAnswers(t) ==
    {Raise, Return(EmptyProfile), Return(Profile(t)), Return(PartialProfile(t))}

\* /stock/candle and /forex/candle payloads
Candle(n) ==
    [c |-> [k \in 1..n |-> 100 + k], h |-> [k \in 1..n |-> 200 + k],
     l |-> [k \in 1..n |-> 300 + k], o |-> [k \in 1..n |-> 400 + k],
     t |-> [k \in 1..n |-> (FromDay + k - 1) * 86400 + 3600 * k],
     v |-> [k \in 1..n |-> 500 + k], s |-> "ok"]
NoData == [s |-> "no_data"]

CandleAnswers == {Raise, Return(NoData)} \cup {Return(Candle(n)) : n \in 0..lim.bars}

\* /index/constituents payloads
IndexAnswers ==
    {Raise} \cup {Return([constituents |-> cs]) : cs \in SeqsUpTo(lim.tickers, lim.const)}

\* /forex/exchange and /forex/symbol payloads; an exchange is listed once
ExchangeAnswers == {Raise} \cup {Return(es) : es \in DistinctSeqs(lim.exchanges, lim.exch)}

PairCode(p) == IF p = "EUR/USD" THEN "EUR_USD" ELSE "GBP_USD"
FxSymbol(exch, p) ==
    [description |-> exch \o " " \o p, displaySymbol |-> p,
     symbol |-> exch \o ":" \o PairCode(p)]
SymbolAnswers(exch) ==
    {Raise, Return(<<FxSymbol(exch, "EUR/USD")>>),
     Return(<<FxSymbol(exch, "EUR/USD"), FxSymbol(exch, "GBP/USD")>>)}

(* ----------------------------------------------------- store_data pieces *)
\* time.strftime("%Y-%m-%d", time.localtime(t)): the calendar day of t
DateOf(t) == t \div 86400

\* the tuple appended to stockprofile (lines 146-148, 157-159)
ProfileRow(sp) ==
    <<sp.country, sp.currency, sp.exchange, sp.finnhubIndustry, sp.ipo, sp.logo,
      sp.marketCapitalization, sp.name, sp.phone, sp.shareOutstanding,
      sp.ticker, sp.weburl>>

\* the try block without the `sp == {}` test: an empty profile raises KeyError
ProfileStepNoEmptyTest(ans, batch) ==
    IF ans.raised THEN [raised |-> TRUE, batch |-> batch]
    ELSE IF ~(ProfileKeys \subseteq DOMAIN ans.val)
         THEN [raised |-> TRUE, batch |-> batch]
    ELSE [raised |-> FALSE, batch |-> Append(batch, ProfileRow(ans.val))]

\* body of the phase 1 try block (and of its except block after the sleep):
\* the request, the emptiness test and the append.  A missing key raises
\* before append is called.
ProfileStep(ans, batch) ==
    IF ans.raised THEN [raised |-> TRUE, batch |-> batch]
    ELSE IF ans.val = EmptyProfile THEN [raised |-> FALSE, batch |-> batch]
    ELSE IF ~(ProfileKeys \subseteq DOMAIN ans.val)
         THEN [raised |-> TRUE, batch |-> batch]
    ELSE [raised |-> FALSE, batch |-> Append(batch, ProfileRow(ans.val))]

\* the row loop started at range(1, ...): the last bar is lost
StockRowsShort(tag, stock) ==
    [k \in 1..(Len(stock.c) - 1) |->
        <<tag, stock.c[k], stock.h[k], stock.l[k], stock.o[k],
          DateOf(stock.t[k]), stock.v[k]>>]

\* the row loop of phase 2 (lines 179-181)
StockRows(tag, stock) ==
    [k \in 1..Len(stock.c) |->
        <<tag, stock.c[k], stock.h[k], stock.l[k], stock.o[k],
          DateOf(stock.t[k]), stock.v[k]>>]

\* the row loop of phase 4 (lines 201-204)
FxRows(tag, hist) ==
    [k \in 1..Len(hist.c) |->
        <<tag, hist.c[k], hist.h[k], hist.l[k], hist.o[k], DateOf(hist.t[k])>>]

\* the row loops raise KeyError / IndexError on a payload without the arrays
Expandable(stock, keys) ==
    /\ "c" \in DOMAIN stock
    /\ \A key \in keys : key \in DOMAIN stock /\ Len(stock[key]) >= Len(stock.c)

\* the rows appended to fxanagraphic_data for one exchange (lines 190-191)
FxAnagRows(currencies) ==
    [k \in 1..Len(currencies) |->
        <<currencies[k].description, currencies[k].displaySymbol, currencies[k].symbol>>]

\* the filter without its market test
FxMatchLabelOnly(row, label) == row[2] = label

\* the filter of phase 4 (line 198)
FxMatch(row, label) == row[2] = label /\ Contains(row[3], "FOREX")

\* positions (f, j) of the nested phase 4 loops, in iteration order
Before(a, b) == a[1] < b[1] \/ (a[1] = b[1] /\ a[2] < b[2])
MatchesFrom(req, listing, pos) ==
    {q \in (1..Len(req)) \X (1..Len(listing)) :
        /\ ~Before(q, pos)
        /\ FxMatch(listing[q[2]], req[q[1]])}
FirstMatch(req, listing, pos) ==
    CHOOSE q \in MatchesFrom(req, listing, pos) :
        \A r \in MatchesFrom(req, listing, pos) : ~Before(r, q)

(* ------------------------------------------------------------- FinnhubDB *)
EmptyTables == [n \in TableNames |-> <<>>]

\* a bulk insert that binds only the first row (execute for executemany)
BulkInsertFirstOnly(tbls, name, rows) ==
    [tbls EXCEPT ![name] = @ \o (IF rows = <<>> THEN <<>> ELSE <<rows[1]>>)]

\* cursor.executemany(INSERT ...) followed by con.commit()
BulkInsert(tbls, name, rows) == [tbls EXCEPT ![name] = @ \o rows]

\* a purge that forgets the two FX tables
PurgeStockOnly(tbls) ==
    [n \in TableNames |->
        IF n \in {"anagraphic_table", "stock_historical_data"} THEN <<>> ELSE tbls[n]]

\* the four DELETE statements of create_tables
Purge(tbls) == [n \in TableNames |-> <<>>]

\* FinnhubDB(dbname): connect, create_tables (CREATE IF NOT EXISTS x4,
\* DELETE x4, commit)
Open ==
    /\ pc \in {"idle", "done", "aborted"}
    /\ opens < lim.opens
    /\ exists' = exists \cup TableNames
    /\ tables' = Purge(tables)
    /\ committed' = tables'
    /\ opened' = TRUE
    /\ opens' = opens + 1
    /\ sinceOpen' = EmptyTables
    /\ lastOp' = "FinnhubDB"
    /\ UNCHANGED <<pc, fxcurr, locals, itemLog, seen, fxFetched, inserted,
                   reported, runs, respvars, lim>>

(* ------------------------------------------------------------ store_data *)
Event(op, ans) == [op |-> op, raised |-> ans.raised, val |-> ans.val]
Slept == [op |-> "sleep", raised |-> FALSE, val |-> SleepSeconds]

ClearLocals ==
    /\ indx_const' = <<>> /\ i' = 0 /\ stockprofile' = <<>> /\ prices' = <<>>
    /\ exchanges' = <<>> /\ e' = 0 /\ fxanagraphic_data' = <<>>
    /\ f' = 0 /\ j' = 0 /\ fxprices' = <<>>

\* the fxcurr arguments explored: lists of distinct pair labels
Requests(n) == DistinctSeqs(Pairs, n)

\* an exception leaves store_data: the locals are gone, nothing else changes
Abort == pc' = "aborted" /\ ClearLocals

\* store_data entry: the date conversions and index_constituents (132-139)
Start ==
    /\ opened
    /\ pc \in {"idle", "done", "aborted"}
    /\ runs < lim.runs
    /\ \E req \in Requests(lim.pairs), ans \in IndexAnswers :
        /\ fxcurr' = req
        /\ itemLog' = <<Event("index_constituents", ans)>>
        /\ IF ans.raised
           THEN Abort
           ELSE /\ pc' = "p1"
                /\ indx_const' = ans.val.constituents
                /\ i' = 1
                /\ stockprofile' = <<>>
                /\ UNCHANGED <<prices, exchanges, e, fxanagraphic_data, f, j, fxprices>>
    /\ runs' = runs + 1
    /\ inserted' = <<>>
    /\ reported' = FALSE
    /\ fxFetched' = <<>>
    /\ seen' = [p1 |-> <<>>, p2 |-> <<>>]
    /\ lastOp' = "store_data"
    /\ UNCHANGED <<dbvars, sinceOpen, opens, respvars, lim>>

\* phase 1, try block of one loop iteration (141-148)
P1Fetch ==
    /\ pc = "p1" /\ i <= Len(indx_const)
    /\ \E ans \in ProfileAnswers(indx_const[i]) :
        LET r == ProfileStep(ans, stockprofile) IN
        /\ itemLog' = <<Event("stock_profile", ans)>>
        /\ IF r.raised
           THEN /\ pc' = "p1retry"
                /\ UNCHANGED <<stockprofile, i, seen>>
           ELSE /\ pc' = "p1"
                /\ stockprofile' = r.batch
                /\ i' = i + 1
                /\ seen' = [seen EXCEPT !.p1 = Append(@, [sym |-> indx_const[i], val |-> ans.val])]
    /\ UNCHANGED <<dbvars, fxcurr, indx_const, prices, exchanges, e,
                   fxanagraphic_data, f, j, fxprices, fxFetched, inserted,
                   reported, sinceOpen, runs, opens, respvars, lastOp, lim>>

\* phase 1, except block of one loop iteration (149-159)
P1Retry ==
    /\ pc = "p1retry"
    /\ \E ans \in ProfileAnswers(indx_const[i]) :
        LET r == ProfileStep(ans, stockprofile) IN
        /\ itemLog' = itemLog \o <<Slept, Event("stock_profile", ans)>>
        /\ IF r.raised
           THEN Abort /\ UNCHANGED seen
           ELSE /\ pc' = "p1"
                /\ stockprofile' = r.batch
                /\ i' = i + 1
                /\ seen' = [seen EXCEPT !.p1 = Append(@, [sym |-> indx_const[i], val |-> ans.val])]
                /\ UNCHANGED <<indx_const, prices, exchanges, e,
                               fxanagraphic_data, f, j, fxprices>>
    /\ UNCHANGED <<dbvars, fxcurr, fxFetched, inserted, reported, sinceOpen,
                   runs, opens, respvars, lastOp, lim>>

\* one bulk insert of store_data: executemany and commit on the open store
DoInsert(name, rows) ==
    /\ tables' = BulkInsert(tables, name, rows)
    /\ committed' = tables'
    /\ inserted' = Append(inserted, [table |-> name, rows |-> rows])
    /\ sinceOpen' = [sinceOpen EXCEPT ![name] = @ \o rows]
    /\ UNCHANGED <<exists, opened>>

\* database.insert_stock_anagraphic(stockprofile); prices = [] (160-163)
P1Insert ==
    /\ pc = "p1" /\ i > Len(indx_const)
    /\ DoInsert("anagraphic_table", stockprofile)
    /\ pc' = "p2" /\ i' = 1 /\ prices' = <<>>
    /\ itemLog' = <<>>
    /\ UNCHANGED <<fxcurr, indx_const, stockprofile, exchanges, e,
                   fxanagraphic_data, f, j, fxprices, seen, fxFetched,
                   reported, runs, opens, respvars, lastOp, lim>>

\* the rows of one constituent are appended once its candles are in hand
\* (179-181); a payload without the arrays raises out of store_data
P2Expand(ans) ==
    IF Expandable(ans.val, {"h", "l", "o", "t", "v"})
    THEN /\ pc' = "p2"
         /\ prices' = prices \o StockRows(indx_const[i], ans.val)
         /\ i' = i + 1
         /\ seen' = [seen EXCEPT !.p2 = Append(@, [sym |-> indx_const[i], val |-> ans.val])]
         /\ UNCHANGED <<indx_const, stockprofile, exchanges, e,
                        fxanagraphic_data, f, j, fxprices>>
    ELSE Abort /\ UNCHANGED seen

\* phase 2, try block and row loop of one iteration (165-169, 179-181)
P2Fetch ==
    /\ pc = "p2" /\ i <= Len(indx_const)
    /\ \E ans \in CandleAnswers :
        /\ itemLog' = <<Event("stock_candles", ans)>>
        /\ IF ans.raised
           THEN /\ pc' = "p2retry"
                /\ UNCHANGED <<locals, seen>>
           ELSE P2Expand(ans)
    /\ UNCHANGED <<dbvars, fxcurr, fxFetched, inserted, reported, sinceOpen,
                   runs, opens, respvars, lastOp, lim>>

\* phase 2, except block and row loop of one iteration (171-181)
P2Retry ==
    /\ pc = "p2retry"
    /\ \E ans \in CandleAnswers :
        /\ itemLog' = itemLog \o <<Slept, Event("stock_candles", ans)>>
        /\ IF ans.raised
           THEN Abort /\ UNCHANGED seen
           ELSE P2Expand(ans)
    /\ UNCHANGED <<dbvars, fxcurr, fxFetched, inserted, reported, sinceOpen,
                   runs, opens, respvars, lastOp, lim>>

\* database.insert_stock_prices(prices) (183)
P2Insert ==
    /\ pc = "p2" /\ i > Len(indx_const)
    /\ DoInsert("stock_historical_data", prices)
    /\ pc' = "p3x"
    /\ itemLog' = <<>>
    /\ UNCHANGED <<fxcurr, locals, seen, fxFetched, reported, runs, opens, respvars, lastOp, lim>>

\* exchanges = self.forex_exchanges(); fxanagraphic_data = [] (186-187)
P3Exchanges ==
    /\ pc = "p3x"
    /\ \E ans \in ExchangeAnswers :
        /\ itemLog' = <<Event("forex_exchanges", ans)>>
        /\ IF ans.raised
           THEN Abort
           ELSE /\ pc' = "p3"
                /\ exchanges' = ans.val
                /\ e' = 1
                /\ fxanagraphic_data' = <<>>
                /\ UNCHANGED <<indx_const, i, stockprofile, prices, f, j, fxprices>>
    /\ UNCHANGED <<dbvars, fxcurr, seen, fxFetched, inserted, reported,
                   sinceOpen, runs, opens, respvars, lastOp, lim>>

\* the exchange loop with a failing exchange skipped instead of raised
P3SymbolsSkipFailed ==
    /\ pc = "p3" /\ e <= Len(exchanges)
    /\ \E ans \in SymbolAnswers(exchanges[e]) :
        /\ itemLog' = <<Event("fx_symbols", ans)>>
        /\ pc' = "p3"
        /\ fxanagraphic_data' =
              IF ans.raised THEN fxanagraphic_data
              ELSE fxanagraphic_data \o FxAnagRows(ans.val)
        /\ e' = e + 1
        /\ UNCHANGED <<indx_const, i, stockprofile, prices, exchanges,
                       f, j, fxprices>>
    /\ UNCHANGED <<dbvars, fxcurr, seen, fxFetched, inserted, reported,
                   sinceOpen, runs, opens, respvars, lastOp, lim>>

\* one iteration of the exchange loop (188-191)
P3Symbols ==
    /\ pc = "p3" /\ e <= Len(exchanges)
    /\ \E ans \in SymbolAnswers(exchanges[e]) :
        /\ itemLog' = <<Event("fx_symbols", ans)>>
        /\ IF ans.raised
           THEN Abort
           ELSE /\ pc' = "p3"
                /\ fxanagraphic_data' = fxanagraphic_data \o FxAnagRows(ans.val)
                /\ e' = e + 1
                /\ UNCHANGED <<indx_const, i, stockprofile, prices, exchanges,
                               f, j, fxprices>>
    /\ UNCHANGED <<dbvars, fxcurr, seen, fxFetched, inserted, reported,
                   sinceOpen, runs, opens, respvars, lastOp, lim>>

\* database.insert_fxanagraphic_data(fxanagraphic_data); fxprices = [] (192-195)
P3Insert ==
    /\ pc = "p3" /\ e > Len(exchanges)
    /\ DoInsert("fxanagraphic_data", fxanagraphic_data)
    /\ pc' = "p4" /\ f' = 1 /\ j' = 1 /\ fxprices' = <<>>
    /\ itemLog' = <<>>
    /\ UNCHANGED <<fxcurr, indx_const, i, stockprofile, prices, exchanges, e,
                   fxanagraphic_data, seen, fxFetched, reported, runs, opens,
                   respvars, lastOp, lim>>

\* the nested loops of phase 4 run on to the next (f, j) that passes the
\* filter, request its candles and append its rows (196-204)
P4Fetch ==
    /\ pc = "p4"
    /\ MatchesFrom(fxcurr, fxanagraphic_data, <<f, j>>) # {}
    /\ LET q == FirstMatch(fxcurr, fxanagraphic_data, <<f, j>>)
           label == fxcurr[q[1]]
           entry == fxanagraphic_data[q[2]]
       IN \E ans \in CandleAnswers :
           /\ itemLog' = <<Event("fx_candles", ans)>>
           /\ fxFetched' = Append(fxFetched, [label |-> label, symbol |-> entry[3], val |-> ans.val])
           /\ IF ans.raised \/ ~Expandable(ans.val, {"h", "l", "o", "t"})
              THEN Abort
              ELSE /\ pc' = "p4"
                   /\ fxprices' = fxprices \o FxRows(label, ans.val)
                   /\ IF q[2] < Len(fxanagraphic_data)
                      THEN f' = q[1] /\ j' = q[2] + 1
                      ELSE f' = q[1] + 1 /\ j' = 1
                   /\ UNCHANGED <<indx_const, i, stockprofile, prices, exchanges,
                                  e, fxanagraphic_data>>
    /\ UNCHANGED <<dbvars, fxcurr, seen, inserted, reported, sinceOpen, runs,
                   opens, respvars, lastOp, lim>>

\* the loops are exhausted: insert_historical_data, then the elapsed-time
\* line (206-208)
P4Insert ==
    /\ pc = "p4"
    /\ MatchesFrom(fxcurr, fxanagraphic_data, <<f, j>>) = {}
    /\ DoInsert("fxhistorical_data", fxprices)
    /\ reported' = TRUE
    /\ pc' = "done"
    /\ ClearLocals
    /\ itemLog' = <<>>
    /\ UNCHANGED <<fxcurr, seen, fxFetched, runs, opens, respvars, lastOp, lim>>

(* ----------------------------------------------------- response handling *)
\* A response body is a sequence of lexemes; response.text is their
\* concatenation.  JSON values are tagged: object (a function on its keys),
\* list, str, num, null.
RECURSIVE Text(_)
Text(body) == IF body = <<>> THEN "" ELSE Head(body) \o Text(Tail(body))

JObj(fn)  == [t |-> "object", v |-> fn]
JList(xs) == [t |-> "list", v |-> xs]
JStr(str) == [t |-> "str", v |-> str]
JNum(n)   == [t |-> "num", v |-> n]
JNull     == [t |-> "null", v |-> <<>>]

Digits == <<"0", "1", "2", "3", "4", "5", "6", "7", "8", "9">>
IsNumTok(tk) == \E d \in 1..10 : Digits[d] = tk
NumOf(tk)    == (CHOOSE d \in 1..10 : Digits[d] = tk) - 1
IsStrTok(tk) ==
    Len(tk) >= 2 /\ SubSeq(tk, 1, 1) = "\"" /\ SubSeq(tk, Len(tk), Len(tk)) = "\""
Unquote(tk)  == SubSeq(tk, 2, Len(tk) - 1)

ParseFail      == [ok |-> FALSE, val |-> JNull, next |-> 0]
ParseOk(v, nx) == [ok |-> TRUE, val |-> v, next |-> nx]
At(ts, p, tk)  == p <= Len(ts) /\ ts[p] = tk

\* json.loads: a recursive-descent parse of the lexemes
RECURSIVE ParseValue(_, _), ParseElems(_, _, _), ParseMembers(_, _, _)
ParseValue(ts, p) ==
    IF p > Len(ts) THEN ParseFail
    ELSE IF ts[p] = "null" THEN ParseOk(JNull, p + 1)
    ELSE IF IsNumTok(ts[p]) THEN ParseOk(JNum(NumOf(ts[p])), p + 1)
    ELSE IF IsStrTok(ts[p]) THEN ParseOk(JStr(Unquote(ts[p])), p + 1)
    ELSE IF ts[p] = "[" THEN
        IF At(ts, p + 1, "]") THEN ParseOk(JList(<<>>), p + 2)
        ELSE ParseElems(ts, p + 1, <<>>)
    ELSE IF ts[p] = "{" THEN
        IF At(ts, p + 1, "}") THEN ParseOk(JObj(<<>>), p + 2)
        ELSE ParseMembers(ts, p + 1, <<>>)
    ELSE ParseFail
ParseElems(ts, p, acc) ==
    LET r == ParseValue(ts, p) IN
    IF ~r.ok THEN ParseFail
    ELSE IF At(ts, r.next, "]") THEN ParseOk(JList(Append(acc, r.val)), r.next + 1)
    ELSE IF At(ts, r.next, ",") THEN ParseElems(ts, r.next + 1, Append(acc, r.val))
    ELSE ParseFail
ParseMembers(ts, p, acc) ==
    IF ~(p + 1 <= Len(ts) /\ IsStrTok(ts[p]) /\ ts[p + 1] = ":") THEN ParseFail
    ELSE LET r == ParseValue(ts, p + 2) IN
         IF ~r.ok THEN ParseFail
         ELSE LET more == (Unquote(ts[p]) :> r.val) @@ acc IN
              IF At(ts, r.next, "}") THEN ParseOk(JObj(more), r.next + 1)
              ELSE IF At(ts, r.next, ",") THEN ParseMembers(ts, r.next + 1, more)
              ELSE ParseFail

\* response.json(): the parsed value, or ValueError
Json(resp) ==
    LET r == ParseValue(resp.body, 1) IN
    IF r.ok /\ r.next = Len(resp.body) + 1
    THEN [raised |-> FALSE, val |-> r.val]
    ELSE [raised |-> TRUE, val |-> JNull]

\* response.ok: the status is not a 4xx or 5xx
Ok(resp) == ~(400 <= resp.status_code /\ resp.status_code < 600)

ApiError(resp, msg) ==
    [kind |-> "FinnhubAPIException", status_code |-> resp.status_code, message |-> msg]
RequestError(msg) == [kind |-> "FinnhubRequestException", message |-> msg]
TypeError == [kind |-> "TypeError"]
Returned(v) == [kind |-> "return", val |-> v]

\* Python's `"error" in x` for a parsed JSON value x; numbers and null are not
\* containers
ContainerOf(x) == x.t \in {"object", "list", "str"}
HasError(x) ==
    IF x.t = "object" THEN "error" \in DOMAIN x.v
    ELSE IF x.t = "list" THEN \E k \in 1..Len(x.v) : x.v[k] = JStr("error")
    ELSE Contains(x.v, "error")

\* FinnhubAPIException.__init__ (11-24): what `raise FinnhubAPIException(response)`
\* raises
FinnhubAPIException(resp) ==
    LET js == Json(resp) IN
    IF js.raised
    THEN ApiError(resp, JStr("JSON error message from Finnhub: " \o Text(resp.body)))
    ELSE IF ~ContainerOf(js.val) THEN TypeError
    ELSE IF ~HasError(js.val) THEN ApiError(resp, JStr("Wrong json format from FinnhubAPI"))
    ELSE IF js.val.t = "object" THEN ApiError(resp, js.val.v["error"])
    ELSE TypeError

\* _handle_response without the except clause: a body that does not parse
\* lets json's ValueError through
HandleResponseNoCatch(resp) ==
    IF ~Ok(resp) THEN FinnhubAPIException(resp)
    ELSE IF Contains(resp.content_type, "application/json") THEN
        IF Json(resp).raised THEN [kind |-> "ValueError"]
        ELSE Returned(Json(resp).val)
    ELSE IF Contains(resp.content_type, "text/csv") THEN Returned(JStr(Text(resp.body)))
    ELSE IF Contains(resp.content_type, "text/plain") THEN Returned(JStr(Text(resp.body)))
    ELSE RequestError("Invalid Response: " \o Text(resp.body))

\* Finnhub._handle_response (84-97)
HandleResponseOf(resp) ==
    IF ~Ok(resp) THEN FinnhubAPIException(resp)
    ELSE IF Contains(resp.content_type, "application/json") THEN
        IF Json(resp).raised
        THEN RequestError("Invalid Response: " \o Text(resp.body))
        ELSE Returned(Json(resp).val)
    ELSE IF Contains(resp.content_type, "text/csv") THEN Returned(JStr(Text(resp.body)))
    ELSE IF Contains(resp.content_type, "text/plain") THEN Returned(JStr(Text(resp.body)))
    ELSE RequestError("Invalid Response: " \o Text(resp.body))

StatusCodes  == {200, 201, 400, 429, 500}
ContentTypes == {"application/json", "application/json; charset=utf-8", "text/csv",
                 "text/plain; charset=utf-8", "text/html", ""}
Bodies ==
    {<<>>,
     <<"{", "}">>,
     <<"{", "\"error\"", ":", "\"API limit reached\"", "}">>,
     <<"{", "\"error\"", ":", "null", "}">>,
     <<"{", "\"s\"", ":", "\"ok\"", ",", "\"c\"", ":", "[", "1", ",", "2", "]", "}">>,
     <<"{", "\"error\"">>,
     <<"[", "]">>,
     <<"[", "\"error\"", "]">>,
     <<"[", "\"AAA\"", ",", "\"BBB\"", "]">>,
     <<"null">>,
     <<"5">>,
     <<"\"error\"">>,
     <<"\"ok\"">>,
     <<"<html>", "Bad Gateway", "</html>">>,
     <<"AAA", ",", "BBB">>}
Responses ==
    [status_code : StatusCodes, content_type : ContentTypes, body : Bodies]

NoResponse == [status_code |-> 200, content_type |-> "", body |-> <<>>]
NoOutcome  == [kind |-> "none"]

\* one call of _handle_response on the response in hand
HandleResponse ==
    /\ outcome = NoOutcome
    /\ outcome' = HandleResponseOf(response)
    /\ UNCHANGED <<dbvars, pc, fxcurr, locals, histvars, response, lim>>

(* ------------------------------------------------------- specification *)

\* the state before the first FinnhubDB is constructed
Begin ==
    /\ tables = EmptyTables /\ exists = {} /\ committed = EmptyTables /\ opened = FALSE
    /\ pc = "idle" /\ fxcurr = <<>>
    /\ indx_const = <<>> /\ i = 0 /\ stockprofile = <<>> /\ prices = <<>>
    /\ exchanges = <<>> /\ e = 0 /\ fxanagraphic_data = <<>>
    /\ f = 0 /\ j = 0 /\ fxprices = <<>>
    /\ itemLog = <<>> /\ seen = [p1 |-> <<>>, p2 |-> <<>>] /\ fxFetched = <<>>
    /\ inserted = <<>> /\ reported = FALSE /\ sinceOpen = EmptyTables
    /\ runs = 0 /\ opens = 0 /\ lastOp = "none"

\* Spec explores the stock phases in depth, SpecFx the FX phases, SpecStore
\* repeated constructions and runs on one database file.
StockLimits == [const |-> MaxConst, bars |-> MaxBars, exch |-> 1, pairs |-> 1,
                runs |-> 1, opens |-> 1,
                tickers |-> Tickers, exchanges |-> Exchanges]
FxLimits    == [const |-> 1, bars |-> 1, exch |-> MaxExch, pairs |-> MaxPairs,
                runs |-> 1, opens |-> 1,
                tickers |-> Tickers, exchanges |-> Exchanges]
StoreLimits == [const |-> 1, bars |-> 1, exch |-> 1, pairs |-> 1,
                runs |-> MaxRuns, opens |-> MaxOpens,
                tickers |-> {"AAA"}, exchanges |-> {"FOREX"}]

Init      == Begin /\ lim = StockLimits /\ response = NoResponse /\ outcome = NoOutcome
InitFx    == Begin /\ lim = FxLimits /\ response = NoResponse /\ outcome = NoOutcome
InitStore == Begin /\ lim = StoreLimits /\ response = NoResponse /\ outcome = NoOutcome

Next ==
    \/ Open
    \/ Start
    \/ P1Fetch \/ P1Retry \/ P1Insert
    \/ P2Fetch \/ P2Retry \/ P2Insert
    \/ P3Exchanges \/ P3Symbols \/ P3Insert
    \/ P4Fetch \/ P4Insert

Spec      == Init /\ [][Next]_vars
SpecFx    == InitFx /\ [][Next]_vars
SpecStore == InitStore /\ [][Next]_vars

\* _handle_response on every response of Responses
InitResp == Begin /\ lim = StoreLimits /\ response \in Responses /\ outcome = NoOutcome
NextResp == HandleResponse
SpecResp == InitResp /\ [][NextResp]_vars

(* ================================================================ claims *)
\* the table each phase of store_data fills, in program order
PhaseTables == <<"anagraphic_table", "stock_historical_data",
                 "fxanagraphic_data", "fxhistorical_data">>

\* the rows the current (or most recent) store_data run inserted into a table
RowsOfRun(name) ==
    Flatten([k \in 1..Len(inserted) |->
                IF inserted[k].table = name THEN inserted[k].rows ELSE <<>>])

AtRest == pc \in {"idle", "done", "aborted"}

(* C1, as stated: whenever a store_data run has just ended (it is the latest  *)
(* call made), every table holds exactly the rows that run inserted and none  *)
(* of an earlier run.                                                         *)
C1_LastRunOnly ==
    (AtRest /\ lastOp = "store_data") =>
        \A n \in TableNames : tables[n] = RowsOfRun(n)

(* C1, amended: every table holds exactly the rows inserted since the most    *)
(* recent FinnhubDB construction, the batches of all runs made on it in       *)
(* order; nothing inserted before that construction remains.                  *)
C1_RowsSinceOpen ==
    /\ \A n \in TableNames : tables[n] = sinceOpen[n]
    /\ committed = tables

\* two runs on one construction: the table holds both runs' rows
C1_Witness ==
    /\ pc = "done" /\ runs = 2 /\ opens = 1
    /\ Len(RowsOfRun("anagraphic_table")) = 1
    /\ Len(tables["anagraphic_table"]) = 2
    /\ Len(tables["fxanagraphic_data"]) >= 3

(* C2: once a FinnhubDB has been constructed all four tables exist; right     *)
(* after a construction they are empty, in the connection and as committed to *)
(* the file, whatever an earlier run left in them, and they stay empty until  *)
(* a bulk insert follows the construction; no bulk insert happens before the  *)
(* first construction.                                                        *)
C2_EmptyAfterOpen ==
    /\ opened => exists = TableNames
    /\ lastOp = "FinnhubDB" =>
            /\ opened
            /\ \A n \in TableNames : tables[n] = <<>> /\ committed[n] = <<>>
    /\ (opened /\ \A n \in TableNames : sinceOpen[n] = <<>>) =>
            \A n \in TableNames : tables[n] = <<>>
    /\ ~opened => (inserted = <<>> /\ runs = 0)

\* a second construction after a run that filled all four tables
C2_Witness ==
    /\ opens = 2 /\ pc = "done" /\ lastOp = "FinnhubDB"
    /\ \A n \in TableNames : RowsOfRun(n) # <<>> /\ tables[n] = <<>>

ItemFetches == SelectSeq(itemLog, LAMBDA ev : ev.op # "sleep")
ItemSleeps  == SelectSeq(itemLog, LAMBDA ev : ev.op = "sleep")

(* C3, as stated: for a constituent of phase 1 or 2 there are at most two     *)
(* requests; a second request happens only after the first request raised,    *)
(* with exactly one sleep between them; a second failure leaves store_data.   *)
C3_SingleRetry ==
    (itemLog # <<>> /\ itemLog[1].op \in {"stock_profile", "stock_candles"}) =>
        /\ Len(ItemFetches) <= 2
        /\ Len(ItemSleeps) <= 1
        /\ Len(ItemFetches) = 2 =>
              /\ itemLog[1].raised
              /\ itemLog[2] = Slept
              /\ Len(itemLog) = 3
        /\ ItemSleeps # <<>> => Len(ItemFetches) = 2
        /\ (Len(ItemFetches) = 2 /\ itemLog[3].raised) => pc = "aborted"

(* C4, as stated: a response whose status is not a success status always      *)
(* makes _handle_response raise FinnhubAPIException carrying the status code  *)
(* and a message, whatever the body and the content type.                     *)
C4_NonSuccessRaisesApiError ==
    (outcome.kind # "none" /\ ~Ok(response)) =>
        /\ outcome.kind = "FinnhubAPIException"
        /\ outcome.status_code = response.status_code
        /\ "message" \in DOMAIN outcome

JsonTypes == {"application/json", "application/json; charset=utf-8"}
TextTypes == {"text/csv", "text/plain; charset=utf-8"}
ExpectedJson ==
    ( <<"{", "}">> :> JObj(<<>>) ) @@
    ( <<"{", "\"error\"", ":", "\"API limit reached\"", "}">>
        :> JObj([error |-> JStr("API limit reached")]) ) @@
    ( <<"{", "\"error\"", ":", "null", "}">> :> JObj([error |-> JNull]) ) @@
    ( <<"{", "\"s\"", ":", "\"ok\"", ",", "\"c\"", ":", "[", "1", ",", "2", "]", "}">>
        :> JObj([s |-> JStr("ok"), c |-> JList(<<JNum(1), JNum(2)>>)]) ) @@
    ( <<"[", "]">> :> JList(<<>>) ) @@
    ( <<"[", "\"error\"", "]">> :> JList(<<JStr("error")>>) ) @@
    ( <<"[", "\"AAA\"", ",", "\"BBB\"", "]">> :> JList(<<JStr("AAA"), JStr("BBB")>>) ) @@
    ( <<"null">> :> JNull ) @@
    ( <<"5">> :> JNum(5) ) @@
    ( <<"\"error\"">> :> JStr("error") ) @@
    ( <<"\"ok\"">> :> JStr("ok") )
EndsWith(str, tail) ==
    Len(str) >= Len(tail) /\ SubSeq(str, Len(str) - Len(tail) + 1, Len(str)) = tail
CarriesText(out, resp) ==
    /\ out.kind = "FinnhubRequestException"
    /\ EndsWith(out.message, Text(resp.body))

(* C5: on a success status, a JSON content type with a parseable body returns *)
(* the parsed value, a CSV or plain-text content type returns the body text   *)
(* unchanged, and every other case raises FinnhubRequestException whose       *)
(* message ends with the raw response text.                                   *)
C5_SuccessDispatch ==
    (outcome.kind # "none" /\ Ok(response)) =>
        IF response.content_type \in JsonTypes
        THEN IF response.body \in DOMAIN ExpectedJson
             THEN outcome.kind = "return" /\ outcome.val = ExpectedJson[response.body]
             ELSE CarriesText(outcome, response)
        ELSE IF response.content_type \in TextTypes
        THEN /\ outcome.kind = "return"
             /\ outcome.val.t = "str"
             /\ outcome.val.v = Text(response.body)
        ELSE CarriesText(outcome, response)

\* a candle payload with a JSON content type has been handled and parsed
C5_Witness ==
    /\ Ok(response) /\ outcome.kind = "return"
    /\ response.content_type = "application/json; charset=utf-8"
    /\ response.body = <<"{", "\"s\"", ":", "\"ok\"", ",", "\"c\"", ":", "[", "1", ",", "2", "]", "}">>
    /\ outcome.val.v["c"].v[2].v = 2

Phase1Rows ==
    IF inserted # <<>> THEN inserted[1].rows ELSE stockprofile
NonEmptySeen == SelectSeq(seen.p1, LAMBDA x : x.val # <<>>)

(* C6: the rows collected in phase 1, and the batch handed to                 *)
(* insert_stock_anagraphic, are exactly one row per processed constituent     *)
(* whose profile is non-empty, in constituent order; an empty profile gives   *)
(* no row and never makes the run fail, also when it arrives on the retry.    *)
C6_EmptyProfileSkipped ==
    /\ pc \in {"p1", "p1retry"} =>
          /\ Len(seen.p1) = i - 1
          /\ \A k \in 1..Len(seen.p1) : seen.p1[k].sym = indx_const[k]
    /\ inserted # <<>> => inserted[1].table = "anagraphic_table"
    /\ (pc # "aborted" \/ inserted # <<>>) =>
          /\ Len(Phase1Rows) = Len(NonEmptySeen)
          /\ \A k \in 1..Len(NonEmptySeen) :
                Phase1Rows[k] = ProfileRow(NonEmptySeen[k].val)
    /\ (itemLog # <<>> /\ itemLog[Len(itemLog)].op = "stock_profile"
            /\ ~itemLog[Len(itemLog)].raised
            /\ itemLog[Len(itemLog)].val = EmptyProfile) =>
          /\ pc = "p1"
          /\ seen.p1[Len(seen.p1)].val = EmptyProfile

\* AAA has an empty profile, BBB a full one: the batch handed over is BBB's row
C6_Witness ==
    /\ pc = "p2" /\ Len(inserted) = 1
    /\ Len(seen.p1) = 2
    /\ seen.p1[1] = [sym |-> "AAA", val |-> EmptyProfile]
    /\ inserted[1].rows = <<ProfileRow(Profile("BBB"))>>

Phase2Rows ==
    IF Len(inserted) >= 2 THEN inserted[2].rows ELSE prices
ExpectedBars(x) ==
    [k \in 1..Len(x.val.c) |->
        <<x.sym, x.val.c[k], x.val.h[k], x.val.l[k], x.val.o[k],
          x.val.t[k] \div 86400, x.val.v[k]>>]

(* C7: the rows collected in phase 2, and the batch handed to                 *)
(* insert_stock_prices, are the concatenation over the constituents, in       *)
(* order, of N rows for a candle response with arrays of length N, the k-th   *)
(* row holding the ticker requested and the k-th close, high, low, open, day  *)
(* and volume.                                                                *)
C7_OneRowPerBar ==
    /\ pc \in {"p2", "p2retry"} =>
          /\ Len(seen.p2) = i - 1
          /\ \A k \in 1..Len(seen.p2) : seen.p2[k].sym = indx_const[k]
    /\ Len(inserted) >= 2 => inserted[2].table = "stock_historical_data"
    /\ (pc # "aborted" \/ Len(inserted) >= 2) =>
          Phase2Rows = Flatten([k \in 1..Len(seen.p2) |-> ExpectedBars(seen.p2[k])])

\* two bars for AAA and one for BBB give three rows, the second AAA's second day
C7_Witness ==
    /\ Len(inserted) >= 2 /\ Len(seen.p2) = 2
    /\ seen.p2[1].sym = "AAA" /\ Len(seen.p2[1].val.c) = 2
    /\ seen.p2[2].sym = "BBB" /\ Len(seen.p2[2].val.c) = 1
    /\ Len(inserted[2].rows) = 3
    /\ inserted[2].rows[2] = <<"AAA", 102, 202, 302, 402, FromDay + 1, 502>>
    /\ inserted[2].rows[3][1] = "BBB"

(* ------------------------------------------------------------ FX phases *)
\* the FX anagraphic listing built in phase 3, once it has been handed over
Listing == IF Len(inserted) >= 3 THEN inserted[3].rows ELSE <<>>
Fetched == [k \in 1..Len(fxFetched) |->
               [label |-> fxFetched[k].label, symbol |-> fxFetched[k].symbol]]
FetchedLabels == {fxFetched[k].label : k \in 1..Len(fxFetched)}
Phase4Rows == IF Len(inserted) >= 4 THEN inserted[4].rows ELSE fxprices
ForexEntries(label) ==
    SelectSeq(Listing, LAMBDA row : row[2] = label /\ Contains(row[3], "FOREX"))
ExpectedFetches ==
    Flatten([k \in 1..Len(fxcurr) |->
        [m \in 1..Len(ForexEntries(fxcurr[k])) |->
            [label |-> fxcurr[k], symbol |-> ForexEntries(fxcurr[k])[m][3]]]])
IsPrefix(a, b) == Len(a) <= Len(b) /\ SubSeq(b, 1, Len(a)) = a

(* C8, as stated (its example): with the listing [display "EUR/USD", symbol   *)
(* "OANDA:EUR_USD"] and the requested pairs ["EUR/USD", "GBP/USD"], a         *)
(* completed run has attempted a candle fetch for EUR/USD and only for it.    *)
C8_OandaExample ==
    ( /\ pc = "done"
      /\ fxcurr = <<"EUR/USD", "GBP/USD">>
      /\ Listing = <<FxAnagRows(<<FxSymbol("OANDA", "EUR/USD")>>)[1]>> )
    => FetchedLabels = {"EUR/USD"}

(* C8, amended: the fx_candles requests of phase 4 are, in order, one per     *)
(* (requested label, listing entry) whose display label equals the label and  *)
(* whose vendor symbol contains "FOREX" -- all of them when the run           *)
(* completes, a prefix when a request failed; a requested label without such  *)
(* an entry causes no request and no row and does not fail the run; every row *)
(* carries the requested label of the request it came from.                   *)
C8_ForexFilter ==
    Len(inserted) >= 3 =>
        /\ IsPrefix(Fetched, ExpectedFetches)
        /\ pc = "done" => Fetched = ExpectedFetches
        /\ \A k \in 1..Len(fxcurr) :
              ForexEntries(fxcurr[k]) = <<>> =>
                  /\ fxcurr[k] \notin FetchedLabels
                  /\ \A m \in 1..Len(Phase4Rows) : Phase4Rows[m][1] # fxcurr[k]
        /\ (pc = "aborted" /\ Len(inserted) = 3) =>
              /\ fxFetched # <<>>
              /\ itemLog[1].op \in {"fx_candles"}
              /\ itemLog[1].raised \/ "c" \notin DOMAIN itemLog[1].val
        /\ pc \in {"p4", "done"} =>
              Phase4Rows = Flatten([k \in 1..Len(fxFetched) |->
                  [m \in 1..Len(fxFetched[k].val.c) |->
                      <<fxFetched[k].label, fxFetched[k].val.c[m], fxFetched[k].val.h[m],
                        fxFetched[k].val.l[m], fxFetched[k].val.o[m],
                        fxFetched[k].val.t[m] \div 86400>>]])

\* EUR/USD is listed by FOREX and OANDA, GBP/USD by OANDA only: one request,
\* for FOREX:EUR_USD, and one row tagged EUR/USD
C8_Witness ==
    /\ pc = "done"
    /\ fxcurr = <<"EUR/USD", "GBP/USD">>
    /\ \E k \in 1..Len(Listing) : Listing[k][3] = "OANDA:GBP_USD"
    /\ \E k \in 1..Len(Listing) : Listing[k][3] = "OANDA:EUR_USD"
    /\ Fetched = <<[label |-> "EUR/USD", symbol |-> "FOREX:EUR_USD"]>>
    /\ Len(inserted[4].rows) = 1 /\ inserted[4].rows[1][1] = "EUR/USD"

(* C9, as stated: a completed run has issued at most one fx_candles request   *)
(* per requested pair label, and the batch it handed to                       *)
(* insert_historical_data holds at most one row for each (pair label, date).  *)
C9_OneRowPerPairAndDay ==
    pc = "done" =>
        /\ \A a, b \in 1..Len(fxFetched) :
              fxFetched[a].label = fxFetched[b].label => a = b
        /\ \A a, b \in 1..Len(inserted[4].rows) :
              ( /\ inserted[4].rows[a][1] = inserted[4].rows[b][1]
                /\ inserted[4].rows[a][6] = inserted[4].rows[b][6] ) => a = b

RunStep ==
    \/ P1Fetch \/ P1Retry \/ P1Insert \/ P2Fetch \/ P2Retry \/ P2Insert
    \/ P3Exchanges \/ P3Symbols \/ P3Insert \/ P4Fetch \/ P4Insert

(* C10: the bulk inserts of a run are a prefix of [stock anagraphics, stock   *)
(* prices, FX anagraphics, FX prices]; a stock request that fails again after *)
(* its one retry, and any failing request of phase 3 or 4 (one attempt, no    *)
(* sleep), aborts the run; an aborted run has printed no elapsed time, can    *)
(* take no further step, and leaves the batches already inserted committed.   *)
C10_AbortKeepsPrefix ==
    /\ Len(inserted) <= 4
    /\ \A k \in 1..Len(inserted) : inserted[k].table = PhaseTables[k]
    /\ (itemLog # <<>> /\ itemLog[1].op \in {"stock_profile", "stock_candles"}
            /\ Len(itemLog) = 3 /\ itemLog[3].raised) => pc = "aborted"
    /\ (itemLog # <<>>
            /\ itemLog[1].op \in {"forex_exchanges", "fx_symbols", "fx_candles"}) =>
          /\ Len(itemLog) = 1
          /\ itemLog[1].raised => pc = "aborted"
    /\ reported <=> pc = "done"
    /\ pc = "done" <=> (Len(inserted) = 4 /\ lastOp = "store_data")
    /\ (pc = "aborted" /\ lastOp = "store_data") =>
          /\ Len(inserted) <= 3
          /\ ~ENABLED RunStep
          /\ \A k \in 1..Len(inserted) :
                LET held == committed[inserted[k].table] IN
                /\ Len(held) >= Len(inserted[k].rows)
                /\ SubSeq(held, Len(held) - Len(inserted[k].rows) + 1, Len(held))
                      = inserted[k].rows

\* fx_symbols raised on its first attempt: the run is over, the two stock
\* batches stay in their tables
C10_Witness ==
    /\ pc = "aborted" /\ Len(inserted) = 2
    /\ itemLog = <<Event("fx_symbols", Raise)>>
    /\ inserted[1].rows # <<>> /\ tables["anagraphic_table"] = inserted[1].rows
    /\ Len(inserted[2].rows) = 2 /\ tables["stock_historical_data"] = inserted[2].rows
    /\ tables["fxanagraphic_data"] = <<>>

====
